---- MODULE Spec2Model ----
(***************************************************************************)
(* A model of rq-core's GitRepo (crates/rq-core/src/git.rs): the patch     *)
(* application strategy (apply_patch), the range replay strategy           *)
(* (cherry_pick), the branch derivation orchestrator (create_branch_from)  *)
(* and the repository primitives they are built from.                      *)
(*                                                                         *)
(* A repository is a commit store, local branches, the `initial` tag, the  *)
(* checked-out branch, the working tree, the index, the cherry-pick state  *)
(* and the refs of the two remotes.  Every public operation is one action: *)
(* it runs the git commands of the handler in order, stops at the first    *)
(* `?` that sees an error, and leaves the commands it ran in `log`.        *)
(*                                                                         *)
(* A second specification, SpecEnv, models command.rs: threads that call   *)
(* command() and the process-wide LazyLock ENV they dereference.           *)
(***************************************************************************)
EXTENDS Integers, Sequences, FiniteSets, TLC

\* ---------------------------------------------------------------- bounds
MaxPatchLen == 2   \* longest patch sequence handed to apply_patch
MaxUp == 3         \* longest lesson chain of the upstream remote
MaxCalls == 1      \* operations called on a handle after it is constructed
MaxThreads == 3    \* threads that call command()
MaxCmds == 2       \* commands each thread constructs

\* ------------------------------------------------------------ constants
UPSTREAM == "upstream"
INITIAL_TAG == "initial"
MergeType == {"Success", "SolutionReset", "StarterReset"}

MAIN == "main"
META == "meta"
LessonNames == <<"lesson1", "lesson2", "lesson3", "lesson4", "lesson5">>
Lessons == {LessonNames[i] : i \in 1..MaxUp}
Branches == {MAIN, META} \cup Lessons

\* --------------------------------------------------------------- trees
\* A tree gives every path its content.  The content files are the
\* package's; the metadata path stands for rqst.toml and package.json.gz.
Files == {"f.txt", "g.txt"}
MetaPath == "rqst.toml"
Paths == {MetaPath} \cup Files
Vals == {"v0", "v1", "v2"}
\* the contents a file takes: three for f.txt, so that two sides can change
\* it differently, two for g.txt
Contents(f) == IF f = "f.txt" THEN Vals ELSE {"v0", "v1"}
Absent == "absent"
Conflicted == "<<<<<<<"   \* a file a stopped cherry-pick left with conflict markers
Trees == {t \in [Paths -> Vals \cup {Absent}] :
            t[MetaPath] = Absent /\ \A f \in Files : t[f] \in Contents(f)}
EmptyTree == [p \in Paths |-> Absent]
Pristine == [p \in Paths |-> IF p = MetaPath THEN Absent ELSE "v0"]

\* a patch is a set of hunks, at most one per file; a hunk rewrites a file
\* whose content is `from` into `to`
Hunks == {h \in [file : Files, from : Vals, to : Vals] :
            h.from # h.to /\ {h.from, h.to} \subseteq Contents(h.file)}
Patches == {{h} : h \in Hunks}

RECURSIVE SeqsUpTo(_, _)
SeqsUpTo(S, n) ==
  IF n = 0 THEN {<<>>}
  ELSE LET shorter == SeqsUpTo(S, n - 1)
       IN shorter \cup {Append(s, x) : s \in {q \in shorter : Len(q) = n - 1}, x \in S}

PatchSeqs == SeqsUpTo(Patches, MaxPatchLen) \ {<<>>}

\* what `git apply` checks and does on a tree
Applies(p, t) == \A h \in p : t[h.file] = h.from
ApplyTo(p, t) ==
  [q \in Paths |-> IF \E h \in p : h.file = q
                   THEN (CHOOSE h \in p : h.file = q).to
                   ELSE t[q]]

RECURSIVE AppliesAll(_, _)
AppliesAll(ps, t) ==
  IF ps = <<>> THEN TRUE
  ELSE Applies(Head(ps), t) /\ AppliesAll(Tail(ps), ApplyTo(Head(ps), t))

RECURSIVE ApplyAll(_, _)
ApplyAll(ps, t) ==
  IF ps = <<>> THEN t ELSE ApplyAll(Tail(ps), ApplyTo(Head(ps), t))

Last(s) == s[Len(s)]

\* ---------------------------------------------------------- repository
\* The repository a GitRepo handle is bound to, as one record:
\*   commits  the commit store, a commit's identifier is its index
\*   branch   local branches (0: no such branch; for the checked-out
\*            branch: unborn)
\*   head     the checked-out branch
\*   tag      the commit tagged `initial` (0: no tag)
\*   wt, index  working tree and index
\*   cp       0, or the commit to return to when a stopped cherry-pick
\*            is aborted
\*   origin   the branches of the remote `origin`
\*   upstream the branches of the remote `upstream` (0: none)
\*   remote   whether the remote `upstream` has been added
Commit(tree, parent, msg) == [tree |-> tree, parent |-> parent, msg |-> msg]

TreeOf(r, id) == IF id = 0 THEN EmptyTree ELSE r.commits[id].tree
HeadId(r) == r.branch[r.head]
HeadTree(r) == TreeOf(r, HeadId(r))
Clean(r) == r.cp = 0 /\ r.wt = r.index /\ r.index = HeadTree(r)

RECURSIVE IsAncestor(_, _, _)
\* a is b or an ancestor of b
IsAncestor(r, a, b) ==
  IF b = 0 THEN a = 0
  ELSE a = b \/ a = 0 \/ (a < b /\ IsAncestor(r, a, r.commits[b].parent))

RECURSIVE RevRange(_, _, _)
\* the commits of b..t: reachable from t and not from b, oldest first
RevRange(r, b, t) ==
  IF t = 0 \/ IsAncestor(r, t, b) THEN <<>>
  ELSE Append(RevRange(r, b, r.commits[t].parent), t)

\* a reference as the handlers write it: the tag, a local branch, or a
\* branch of the upstream remote
TagRef == [kind |-> "tag", name |-> INITIAL_TAG]
BranchRef(b) == [kind |-> "branch", name |-> b]
UpstreamRef(b) == [kind |-> UPSTREAM, name |-> b]
Resolve(r, ref) ==
  IF ref.kind = "tag" THEN r.tag
  ELSE IF ref.kind = "branch"
       THEN (IF ref.name \in Branches THEN r.branch[ref.name] ELSE 0)
       ELSE (IF ref.name \in Lessons THEN r.upstream[ref.name] ELSE 0)

Done(r) == [r |-> r, ok |-> TRUE]
Failed(r) == [r |-> r, ok |-> FALSE]

\* `git apply -`: all hunks apply or none does; only the working tree changes
GitApply(r, patch) ==
  IF Applies(patch, r.wt) THEN Done([r EXCEPT !.wt = ApplyTo(patch, r.wt)])
  ELSE Failed(r)

\* a reset that would restore the tree of <ref> and leave the branch where
\* it is
GitResetHardKeep(r, ref) ==
  LET id == Resolve(r, ref)
  IN IF id = 0 THEN Failed(r)
     ELSE Done([r EXCEPT !.wt = TreeOf(r, id), !.index = TreeOf(r, id), !.cp = 0])

\* `git reset --hard <ref>`
GitResetHard(r, ref) ==
  LET id == Resolve(r, ref)
  IN IF id = 0 THEN Failed(r)
     ELSE Done([r EXCEPT !.branch[r.head] = id, !.wt = TreeOf(r, id),
                         !.index = TreeOf(r, id), !.cp = 0])

\* `git reset --soft <ref>`: moves the branch, keeps index and working tree
GitResetSoft(r, ref) ==
  LET id == Resolve(r, ref)
  IN IF id = 0 THEN Failed(r) ELSE Done([r EXCEPT !.branch[r.head] = id])

\* `git add .`
GitAdd(r) == Done([r EXCEPT !.index = r.wt])

\* `git commit -m <msg>`: fails when the index holds nothing new
GitCommit(r, msg) ==
  IF HeadId(r) # 0 /\ r.index = HeadTree(r) THEN Failed(r)
  ELSE LET id == Len(r.commits) + 1
       IN Done([r EXCEPT !.commits = Append(@, Commit(r.index, HeadId(r), msg)),
                         !.branch[r.head] = id, !.cp = 0])

\* three-way merge of one file: base, ours, theirs
Clash(b, o, t) == o # t /\ b # o /\ b # t
\* a merge that would take the picked commit's file whatever ours holds
Merge3Theirs(b, o, t) == t
Merge3(b, o, t) == IF b = o THEN t ELSE o

\* a replayed commit on HEAD
Picked(r, merged, msg) ==
  CHOOSE q \in {[r EXCEPT !.commits = Append(@, Commit(merged, HeadId(r), msg)),
                          !.branch[r.head] = Len(r.commits) + 1,
                          !.wt = merged, !.index = merged]} : TRUE

RECURSIVE Replay(_, _)
\* replay the commits ids on HEAD, stopping at the first that conflicts or
\* that changes nothing
Replay(r, ids) ==
  IF ids = <<>> THEN Done([r EXCEPT !.cp = 0])
  ELSE LET c == r.commits[Head(ids)]
           base == TreeOf(r, c.parent)
           ours == HeadTree(r)
           clash == {p \in Paths : Clash(base[p], ours[p], c.tree[p])}
           merged == [p \in Paths |-> Merge3(base[p], ours[p], c.tree[p])]
           marked == [p \in Paths |-> IF p \in clash THEN Conflicted ELSE merged[p]]
       IN IF clash # {} THEN Failed([r EXCEPT !.wt = marked, !.index = marked])
          ELSE IF merged = ours THEN Failed(r)
          ELSE Replay(Picked(r, merged, c.msg), Tail(ids))

\* `git cherry-pick upstream/<base>..upstream/<target>`
GitCherryPick(r, base, target) ==
  LET b == Resolve(r, UpstreamRef(base))
      t == Resolve(r, UpstreamRef(target))
      ids == RevRange(r, b, t)
  IN IF b = 0 \/ t = 0 \/ ids = <<>> \/ ~Clean(r) \/ HeadId(r) = 0 THEN Failed(r)
     ELSE Replay([r EXCEPT !.cp = HeadId(r)], ids)

\* `git cherry-pick --abort`
GitCherryPickAbort(r) ==
  IF r.cp = 0 THEN Failed(r)
  ELSE Done([r EXCEPT !.branch[r.head] = r.cp, !.wt = TreeOf(r, r.cp),
                      !.index = TreeOf(r, r.cp), !.cp = 0])

\* `git checkout -b <name>`
GitCheckoutNew(r, name) ==
  IF r.branch[name] # 0 THEN Failed(r)
  ELSE Done([r EXCEPT !.branch[name] = HeadId(r), !.head = name])

\* `git checkout <name>`: refuses to overwrite local changes
GitCheckout(r, name) ==
  LET old == HeadTree(r)
      new == TreeOf(r, r.branch[name])
      differ == {p \in Paths : old[p] # new[p]}
  IN IF r.branch[name] = 0 \/ r.cp # 0
        \/ \E p \in differ : r.wt[p] # old[p] \/ r.index[p] # old[p]
     THEN Failed(r)
     ELSE Done([r EXCEPT !.head = name,
                         !.wt = [p \in Paths |-> IF p \in differ THEN new[p] ELSE @[p]],
                         !.index = [p \in Paths |-> IF p \in differ THEN new[p] ELSE @[p]]])

\* `git push -u origin <name>`: rejected unless it fast-forwards the remote
GitPush(r, name) ==
  IF r.branch[name] = 0 \/ ~IsAncestor(r, r.origin[name], r.branch[name]) THEN Failed(r)
  ELSE Done([r EXCEPT !.origin[name] = r.branch[name]])

\* `git push --force`: the checked-out branch, to the branch it tracks
GitPushForce(r) ==
  IF HeadId(r) = 0 \/ r.origin[r.head] = 0 THEN Failed(r)
  ELSE Done([r EXCEPT !.origin[r.head] = HeadId(r)])

\* `git rev-parse HEAD`
GitRevParse(r) == IF HeadId(r) = 0 THEN Failed(r) ELSE Done(r)

\* `git tag -f initial`: a tag command that would move an existing tag
GitTagForce(r) ==
  IF HeadId(r) = 0 THEN Failed(r) ELSE Done([r EXCEPT !.tag = HeadId(r)])

\* `git tag initial`: refuses to move an existing tag
GitTag(r) ==
  IF r.tag # 0 \/ HeadId(r) = 0 THEN Failed(r) ELSE Done([r EXCEPT !.tag = HeadId(r)])

\* `git pull`: the input is what the remote branch has gained, a tree or
\* NoTree; a branch that diverged from its remote is not reconciled
NoTree == <<>>
GitPull(r, new) ==
  LET o == r.origin[r.head]
      id == Len(r.commits) + 1
  IN IF HeadId(r) = 0 \/ o = 0 THEN Failed(r)
     ELSE IF new # NoTree
     THEN (IF ~Clean(r) \/ ~IsAncestor(r, HeadId(r), o) THEN Failed(r)
           ELSE Done([r EXCEPT !.commits = Append(@, Commit(new, o, "Student work")),
                               !.origin[r.head] = id, !.branch[r.head] = id,
                               !.wt = new, !.index = new]))
     ELSE IF IsAncestor(r, o, HeadId(r)) THEN Done(r)
     ELSE IF ~Clean(r) \/ ~IsAncestor(r, HeadId(r), o) THEN Failed(r)
     ELSE Done([r EXCEPT !.branch[r.head] = o, !.wt = TreeOf(r, o), !.index = TreeOf(r, o)])

\* `git remote add upstream <url>`
GitRemoteAdd(r) == IF r.remote THEN Failed(r) ELSE Done([r EXCEPT !.remote = TRUE])

RECURSIVE AddLessons(_, _, _)
\* store the lesson commits the remote has, one branch per lesson
AddLessons(r, chain, i) ==
  IF i > Len(chain) THEN r
  ELSE AddLessons(CHOOSE q \in {[r EXCEPT
                                   !.commits = Append(@, Commit(chain[i],
                                                 IF i = 1 THEN 0 ELSE Len(r.commits), "Lesson")),
                                   !.upstream[LessonNames[i]] = Len(r.commits) + 1]} : TRUE,
                  chain, i + 1)

\* `git fetch <remote>`: for upstream the input is the lesson chain the
\* remote holds, stored the first time it is fetched; for origin it is what
\* the remote's main has gained since the last fetch, a tree or NoTree
GitFetch(r, rem, gained) ==
  IF rem = UPSTREAM
  THEN (IF ~r.remote THEN Failed(r)
        ELSE IF \A l \in Lessons : r.upstream[l] = 0 THEN Done(AddLessons(r, gained, 1))
        ELSE Done(r))
  ELSE IF rem = "origin"
  THEN (IF gained = NoTree \/ r.origin[MAIN] = 0 THEN Done(r)
        ELSE Done([r EXCEPT !.commits = Append(@, Commit(gained, r.origin[MAIN],
                                                         "Student work")),
                            !.origin[MAIN] = Len(r.commits) + 1]))
  ELSE Failed(r)

\* `git rev-list --count main..origin/main`: needs both references
GitRevList(r) == IF r.branch[MAIN] = 0 \/ r.origin[MAIN] = 0 THEN Failed(r) ELSE Done(r)
\* the count it prints: the commits of origin/main that main does not reach
RevListCount(r) == Len(RevRange(r, r.branch[MAIN], r.origin[MAIN]))
\* a count of both sides, as `main...origin/main` would give
RevListCountBoth(r) ==
  Len(RevRange(r, r.branch[MAIN], r.origin[MAIN]))
    + Len(RevRange(r, r.origin[MAIN], r.branch[MAIN]))

\* text is a sequence of characters
Digits == <<"0", "1", "2", "3", "4", "5", "6", "7", "8", "9">>
DigitOf(ch) == (CHOOSE i \in 1..10 : Digits[i] = ch) - 1
IsDigit(ch) == \E i \in 1..10 : Digits[i] = ch
Whitespace == {" ", "\n"}
MaxI32 == 2147483647

RECURSIVE Decimal(_)
\* a number as git prints it
Decimal(n) == IF n < 10 THEN <<Digits[n + 1]>> ELSE Append(Decimal(n \div 10), Digits[(n % 10) + 1])

RECURSIVE Trim(_)
\* str::trim
Trim(text) ==
  IF text = <<>> THEN text
  ELSE IF Head(text) \in Whitespace THEN Trim(Tail(text))
  ELSE IF text[Len(text)] \in Whitespace THEN Trim(SubSeq(text, 1, Len(text) - 1))
  ELSE text

RECURSIVE Value(_, _)
Value(digits, acc) ==
  IF digits = <<>> THEN acc ELSE Value(Tail(digits), 10 * acc + DigitOf(Head(digits)))

\* str::parse::<i32>: an optional sign, then digits only, within the range
ParseI32(text) ==
  LET signed == text # <<>> /\ Head(text) \in {"+", "-"}
      digits == IF signed THEN Tail(text) ELSE text
      val == Value(digits, 0)
  IN IF digits = <<>> \/ \E i \in 1..Len(digits) : ~IsDigit(digits[i])
     THEN [ok |-> FALSE, val |-> 0]
     ELSE IF signed /\ Head(text) = "-"
     THEN [ok |-> val <= MaxI32 + 1, val |-> 0 - val]
     ELSE [ok |-> val <= MaxI32, val |-> val]

\* the files write_initial_files writes before its git commands
WriteFiles(r, tree) == Done([r EXCEPT !.wt = [p \in Paths |-> IF p \in Files THEN tree[p] ELSE @[p]]])
WriteMeta(r) == Done([r EXCEPT !.wt[MetaPath] = "present"])

\* ------------------------------------------------------ running commands
Cmd(c, a) == [c |-> c, a |-> a]

Exec(cmd, r) ==
  CASE cmd.c = "apply" -> GitApply(r, cmd.a)
    [] cmd.c = "reset --hard" -> GitResetHard(r, cmd.a)
    [] cmd.c = "reset --soft" -> GitResetSoft(r, cmd.a)
    [] cmd.c = "add" -> GitAdd(r)
    [] cmd.c = "commit" -> GitCommit(r, cmd.a)
    [] cmd.c = "cherry-pick" -> GitCherryPick(r, cmd.a[1], cmd.a[2])
    [] cmd.c = "cherry-pick --abort" -> GitCherryPickAbort(r)
    [] cmd.c = "checkout -b" -> GitCheckoutNew(r, cmd.a)
    [] cmd.c = "checkout" -> GitCheckout(r, cmd.a)
    [] cmd.c = "push -u" -> GitPush(r, cmd.a)
    [] cmd.c = "push --force" -> GitPushForce(r)
    [] cmd.c = "rev-parse" -> GitRevParse(r)
    [] cmd.c = "tag" -> GitTag(r)
    [] cmd.c = "pull" -> GitPull(r, cmd.a)
    [] cmd.c = "remote add" -> GitRemoteAdd(r)
    [] cmd.c = "fetch" -> GitFetch(r, cmd.a[1], cmd.a[2])
    [] cmd.c = "rev-list" -> GitRevList(r)
    [] cmd.c = "write" -> WriteFiles(r, cmd.a)
    [] cmd.c = "write meta" -> WriteMeta(r)

\* The run of a handler: the repository, the commands run so far with their
\* outcome, whether the handler is still running (no `?` has returned), and
\* the command (by position, 0: none) that fails for a reason of the tool
\* rather than of the repository: the subprocess cannot be spawned, is
\* killed, cannot be written to.
Start(r, fault) == [r |-> r, log |-> <<>>, ok |-> TRUE, fault |-> fault]

\* Bind(x, F) is F(x), with x evaluated once
Bind(x, F(_)) == CHOOSE y \in {F(v) : v \in {x}} : TRUE

\* one command run by git_core, its Err returned to the caller
Run(st, cmd) ==
  IF ~st.ok THEN st
  ELSE LET n == Len(st.log) + 1
           broken == st.fault = n
       IN Bind(IF broken THEN Failed(st.r) ELSE Exec(cmd, st.r),
               LAMBDA out :
                 [st EXCEPT !.r = out.r, !.ok = out.ok,
                            !.log = Append(@, [c |-> cmd.c, a |-> cmd.a, ok |-> out.ok,
                                               broken |-> broken])])
Step(st, cmd) == Bind(st, LAMBDA s : Run(s, cmd))

\* the caller matched on the Err instead of returning it
Caught(st) == [st EXCEPT !.ok = TRUE]

\* ----------------------------------------------------------- handlers
\* A handler's outcome: the run and what it returns, a MergeType, "Ok" or
\* "Err".
Outcome(st, val) == Bind(st, LAMBDA s : [st |-> s, res |-> IF s.ok THEN val ELSE "Err"])

RECURSIVE ApplyEachKeepGoing(_, _)
\* the loop as it would be if a patch that fails did not end it
ApplyEachKeepGoing(st, patches) ==
  IF patches = <<>> THEN st
  ELSE ApplyEachKeepGoing(Step(Caught(st), Cmd("apply", Head(patches))), Tail(patches))

RECURSIVE ApplyEach(_, _)
\* for patch in patches { self.apply(patch)?; }
ApplyEach(st, patches) ==
  IF patches = <<>> THEN st
  ELSE ApplyEach(Step(st, Cmd("apply", Head(patches))), Tail(patches))

\* git!(self, "add ."); git!(self, "commit -m 'Starter code'")
CommitStarter(st) == Step(Step(st, Cmd("add", <<>>)), Cmd("commit", "Starter code"))

\* apply_patch as it would be if the fast path tried the whole sequence
apply_patch_whole(st, patches) ==
  Bind(ApplyEach(st, patches),
       LAMBDA first :
         IF first.ok THEN Outcome(CommitStarter(first), "Success")
         ELSE Outcome(CommitStarter(ApplyEach(Step(Caught(first),
                                                   Cmd("reset --hard", TagRef)),
                                              patches)),
                      "StarterReset"))

\* apply_patch as it would be if it refused to replay on a branch that is
\* already on `initial`
apply_patch_rewound(st, patches) ==
  Bind(Step(st, Cmd("apply", Last(patches))),
       LAMBDA first :
         IF first.ok THEN Outcome(CommitStarter(first), "Success")
         ELSE IF HeadId(first.r) = first.r.tag THEN Outcome(first, "Err")
         ELSE Outcome(CommitStarter(ApplyEach(Step(Caught(first),
                                                   Cmd("reset --hard", TagRef)),
                                              patches)),
                      "StarterReset"))

\* GitRepo::apply_patch
apply_patch(st, patches) ==
  Bind(Step(st, Cmd("apply", Last(patches))),
       LAMBDA first :
         IF first.ok THEN Outcome(CommitStarter(first), "Success")
         ELSE Outcome(CommitStarter(ApplyEach(Step(Caught(first),
                                                   Cmd("reset --hard", TagRef)),
                                              patches)),
                      "StarterReset"))

\* the fallback of cherry_pick, up to the soft reset
OverrideTree(st, target_branch) ==
  Step(Step(Step(Caught(st), Cmd("cherry-pick --abort", <<>>)),
            Cmd("reset --hard", UpstreamRef(target_branch))),
       Cmd("reset --soft", BranchRef(MAIN)))

\* cherry_pick as it would be if the fallback left its tree uncommitted
cherry_pick_uncommitted(st, base_branch, target_branch) ==
  IF ~st.ok THEN Outcome(st, "Err")
  ELSE Bind(Step(st, Cmd("cherry-pick", <<base_branch, target_branch>>)),
            LAMBDA res :
              IF res.ok THEN Outcome(res, "Success")
              ELSE Outcome(OverrideTree(res, target_branch), "SolutionReset"))

\* GitRepo::cherry_pick
cherry_pick(st, base_branch, target_branch) ==
  IF ~st.ok THEN Outcome(st, "Err")
  ELSE Bind(Step(st, Cmd("cherry-pick", <<base_branch, target_branch>>)),
            LAMBDA res :
              IF res.ok THEN Outcome(res, "Success")
              ELSE Outcome(Step(OverrideTree(res, target_branch),
                                Cmd("commit", "Override with reference solution")),
                           "SolutionReset"))

\* QuestTemplate::apply_patch: the template picks one of the two strategies
PatchTemplate(patches) == [kind |-> "patch", patches |-> patches]
ReplayTemplate == [kind |-> "replay", patches |-> <<>>]
template_apply_patch(template, st, base_branch, target_branch) ==
  IF template.kind = "patch" THEN apply_patch(st, template.patches)
  ELSE cherry_pick(st, base_branch, target_branch)

\* GitRepo::head_commit
head_commit(st) == Step(st, Cmd("rev-parse", <<>>))

\* what create_branch_from returns after its last step: the commit read by
\* head_commit and the strategy's MergeType
Derived(final, read, merge_type) ==
  [st |-> final,
   res |-> IF final.ok THEN merge_type ELSE "Err",
   head |-> IF final.ok THEN HeadId(read.r) ELSE 0]

\* the strategy run on the branch create_branch_from checked out
Strategy(st, template, base_branch, target_branch) ==
  Bind(Step(st, Cmd("checkout -b", target_branch)),
       LAMBDA created :
         IF created.ok
         THEN template_apply_patch(template, created, base_branch, target_branch)
         ELSE Outcome(created, "Err"))

\* create_branch_from as it would be if it did not return to main
create_branch_from_stay(st, template, base_branch, target_branch) ==
  Bind(Strategy(st, template, base_branch, target_branch),
       LAMBDA strategy :
         Bind(head_commit(Step(strategy.st, Cmd("push -u", target_branch))),
              LAMBDA read : Derived(read, read, strategy.res)))

\* create_branch_from as it would be if a rejected push were ignored
create_branch_from_unpushed(st, template, base_branch, target_branch) ==
  Bind(Strategy(st, template, base_branch, target_branch),
       LAMBDA strategy :
         Bind(head_commit(IF strategy.st.ok
                          THEN Caught(Step(strategy.st, Cmd("push -u", target_branch)))
                          ELSE strategy.st),
              LAMBDA read :
                Bind(Step(read, Cmd("checkout", MAIN)),
                     LAMBDA final : Derived(final, read, strategy.res))))

\* create_branch_from as it would be if it read HEAD after returning to main
create_branch_from_late(st, template, base_branch, target_branch) ==
  Bind(Strategy(st, template, base_branch, target_branch),
       LAMBDA strategy :
         Bind(head_commit(Step(Step(strategy.st, Cmd("push -u", target_branch)),
                               Cmd("checkout", MAIN))),
              LAMBDA read : Derived(read, read, strategy.res)))

\* GitRepo::create_branch_from; `head` is the commit identifier returned
create_branch_from(st, template, base_branch, target_branch) ==
  Bind(Strategy(st, template, base_branch, target_branch),
       LAMBDA strategy :
         Bind(head_commit(Step(strategy.st, Cmd("push -u", target_branch))),
              LAMBDA read :
                Bind(Step(read, Cmd("checkout", MAIN)),
                     LAMBDA final : Derived(final, read, strategy.res))))

\* reset as it would be if it pushed whether or not the hard reset succeeded
reset_push_anyway(st, ref) ==
  Outcome(Step(Caught(Step(st, Cmd("reset --hard", ref))), Cmd("push --force", <<>>)), "Ok")

\* GitRepo::reset
reset(st, ref) ==
  Outcome(Step(Step(st, Cmd("reset --hard", ref)), Cmd("push --force", <<>>)), "Ok")

\* GitRepo::pull, fetch, checkout_main, setup_upstream
pull(st, new) == Outcome(Step(st, Cmd("pull", new)), "Ok")
fetch(st, rem, gained) == Outcome(Step(st, Cmd("fetch", <<rem, gained>>)), "Ok")
checkout_main(st) == Outcome(Step(st, Cmd("checkout", MAIN)), "Ok")
setup_upstream(st, chain) ==
  Outcome(Step(Step(st, Cmd("remote add", <<>>)), Cmd("fetch", <<UPSTREAM, chain>>)), "Ok")

\* what is_behind_origin makes of the text rev-list printed
Behind(ran, out) ==
  LET count == ParseI32(Trim(out))
  IN IF ~count.ok THEN [st |-> [ran EXCEPT !.ok = FALSE], res |-> "Err"]
     ELSE [st |-> ran, res |-> IF count.val > 0 THEN "true" ELSE "false"]

\* is_behind_origin as it would be if it counted the commits of both sides
is_behind_origin_both(st, noise) ==
  Bind(Step(st, Cmd("rev-list", <<>>)),
       LAMBDA ran :
         IF ~ran.ok THEN Outcome(ran, "Err")
         ELSE Behind(ran, noise \o Decimal(RevListCountBoth(ran.r)) \o <<"\n">>))

\* GitRepo::is_behind_origin; `noise` is what the git that is run prints
\* before the count (nothing, for git itself)
is_behind_origin(st, noise) ==
  Bind(Step(st, Cmd("rev-list", <<>>)),
       LAMBDA ran :
         IF ~ran.ok THEN Outcome(ran, "Err")
         ELSE Behind(ran, noise \o Decimal(RevListCount(ran.r)) \o <<"\n">>))

\* the main half of write_initial_files: commit, tag and push the package
InitialCommit(st, initial) ==
  Step(Step(Step(Step(Step(st, Cmd("write", initial)),
                      Cmd("add", <<>>)),
                 Cmd("commit", "Initial commit")),
            Cmd("tag", <<>>)),
       Cmd("push -u", MAIN))

\* the meta half: the branch with the package's metadata
MetaCommit(st) ==
  Step(Step(Step(Step(Step(st, Cmd("checkout -b", META)),
                      Cmd("write meta", <<>>)),
                 Cmd("add", <<>>)),
            Cmd("commit", "Add meta")),
       Cmd("push -u", META))

\* write_initial_files as it would be if the tag were set once both
\* branches are there
write_initial_files_tag_last(st, initial) ==
  Outcome(Step(Step(MetaCommit(Step(Step(Step(Step(st, Cmd("write", initial)),
                                              Cmd("add", <<>>)),
                                         Cmd("commit", "Initial commit")),
                                    Cmd("push -u", MAIN))),
                    Cmd("tag", <<>>)),
               Cmd("checkout", MAIN)),
          "Ok")

\* GitRepo::write_initial_files
write_initial_files(st, initial) ==
  Outcome(Step(MetaCommit(InitialCommit(st, initial)), Cmd("checkout", MAIN)), "Ok")

\* -------------------------------------------------------------- state
VARIABLES commits, branch, head, tag, wt, index, cp, origin, upstream, remote,
          op, arg, pre, log, result, ret, calls,
          ENV, threads, runs
\* op, arg   the last operation called and its arguments
\* pre       the repository as it was when the operation was called
\* log       the commands the operation ran
\* result    what it returned: a MergeType, "Ok" or "Err"
\* ret       the commit identifier create_branch_from returned (0: none)
\* calls     the number of operations called so far
\* ENV       the process-wide LazyLock of command.rs
\* threads   the threads calling command(): where each is, the calls it has
\*           left, the environment each command it constructed was given
\* runs      how many times get_user_env has run

repoVars == <<commits, branch, head, tag, wt, index, cp, origin, upstream, remote,
              op, arg, pre, log, result, ret, calls>>
envVars == <<ENV, threads, runs>>
vars == <<repoVars, envVars>>

Repo == [commits |-> commits, branch |-> branch, head |-> head, tag |-> tag,
         wt |-> wt, index |-> index, cp |-> cp, origin |-> origin,
         upstream |-> upstream, remote |-> remote]

\* a freshly cloned, empty repository: no commit, `main` unborn
EmptyRepo ==
  [commits |-> <<>>, branch |-> [b \in Branches |-> 0], head |-> MAIN, tag |-> 0,
   wt |-> EmptyTree, index |-> EmptyTree, cp |-> 0,
   origin |-> [b \in Branches |-> 0], upstream |-> [l \in Lessons |-> 0],
   remote |-> FALSE]

\* lesson chains of the upstream remote: every lesson changes one file
Chains == {c \in SeqsUpTo(Trees, MaxUp) \ {<<>>} :
             \A i \in 1..(Len(c) - 1) :
               Cardinality({p \in Files : c[i][p] # c[i + 1][p]}) = 1}

\* ------------------------------------------------- the environment snapshot
\* A line of the shell's `env` output is a sequence of characters; the
\* snapshot maps the text before a line's first "=" to the text after it.
Sep == "="
SepAt(line) == {i \in 1..Len(line) : line[i] = Sep}
Min(S) == CHOOSE x \in S : \A y \in S : x <= y

\* line.split_once("=")
SplitOnce(line) ==
  IF SepAt(line) = {} THEN <<>>
  ELSE LET i == Min(SepAt(line))
       IN <<SubSeq(line, 1, i - 1), SubSeq(line, i + 1, Len(line))>>

\* HashMap::insert
Insert(m, k, v) == [x \in DOMAIN m \cup {k} |-> IF x = k THEN v ELSE m[x]]
EmptyMap == [x \in {} |-> <<>>]

RECURSIVE ParseEnv(_, _)
\* the loop of get_user_env over the lines of the shell's output
ParseEnv(lines, key_vals) ==
  IF lines = <<>> THEN key_vals
  ELSE LET kv == SplitOnce(Head(lines))
       IN ParseEnv(Tail(lines),
                   IF kv = <<>> THEN key_vals ELSE Insert(key_vals, kv[1], kv[2]))

\* what `$SHELL -c env` prints at the moment it is run: the environment of
\* the process is not the same at every moment
ShellLines ==
  {<< <<"P", "=", "a">>, <<"H", "=", "b">> >>,
   << <<"P", "=", "a", "=", "c">>, <<"j">>, <<"P", "=", "b">> >>,
   << <<"H", "=", "b">>, <<"P", "=", "a">>, <<"=">> >>,
   <<>>}
\* the shell ran and printed UTF-8 lines, or it did not
ShellOutputs == {[ok |-> TRUE, lines |-> l] : l \in ShellLines}
                  \cup {[ok |-> FALSE, lines |-> <<>>]}

\* get_user_env: the map, or a panic when the shell cannot be run or its
\* output is not UTF-8
get_user_env(output) ==
  IF output.ok THEN [panic |-> FALSE, key_vals |-> ParseEnv(output.lines, EmptyMap)]
  ELSE [panic |-> TRUE, key_vals |-> EmptyMap]

\* the LazyLock before its first use, on a unix build or another
Uninit(unix) == [state |-> "uninit", unix |-> unix, value |-> EmptyMap]
Threads == 1..MaxThreads
Thread(n) == [pc |-> "idle", left |-> n, given |-> <<>>]

\* GitRepo::new binds a handle to the repository found at the path: an
\* empty clone, or one an earlier session took through write_initial_files,
\* then possibly setup_upstream, then possibly a pull of the student's work
\* (the package's files are the pristine tree: renaming the contents of a
\* file maps every other choice to this one)
Written == write_initial_files(Start(EmptyRepo, 0), Pristine).st.r
\* ... or through a fetch of what origin's main has gained (main is behind),
\* or through a patch committed on main and not pushed (main is ahead), or
\* both (main and origin/main have diverged)
Behinds == {fetch(Start(Written, 0), "origin", new).st.r : new \in Trees \ {Pristine}}
Aheads == {apply_patch(Start(Written, 0), <<p>>).st.r :
             p \in {q \in Patches : Applies(q, Pristine)}}
Diverged == {fetch(Start(r, 0), "origin", CHOOSE t \in Trees : t # Pristine).st.r :
               r \in Aheads}
Seeds ==
  {EmptyRepo, Written}
  \cup {pull(Start(Written, 0), new).st.r : new \in Trees \ {Pristine}}
  \cup {setup_upstream(Start(Written, 0), chain).st.r : chain \in Chains}
  \cup Behinds \cup Aheads \cup Diverged

Init ==
  /\ \E seed \in Seeds :
       /\ commits = seed.commits
       /\ branch = seed.branch
       /\ head = seed.head
       /\ tag = seed.tag
       /\ wt = seed.wt
       /\ index = seed.index
       /\ cp = seed.cp
       /\ origin = seed.origin
       /\ upstream = seed.upstream
       /\ remote = seed.remote
  /\ op = "new"
  /\ arg = <<>>
  /\ pre = <<>>
  /\ log = <<>>
  /\ result = "Ok"
  /\ ret = 0
  /\ calls = 0
  /\ ENV = Uninit(TRUE)
  /\ threads = [t \in Threads |-> Thread(0)]
  /\ runs = 0

\* the operation `name` was called with `args` and ended as `out`
Return(name, args, out, id) ==
  /\ commits' = out.st.r.commits
  /\ branch' = out.st.r.branch
  /\ head' = out.st.r.head
  /\ tag' = out.st.r.tag
  /\ wt' = out.st.r.wt
  /\ index' = out.st.r.index
  /\ cp' = out.st.r.cp
  /\ origin' = out.st.r.origin
  /\ upstream' = out.st.r.upstream
  /\ remote' = out.st.r.remote
  /\ op' = name
  /\ arg' = args
  /\ pre' = Repo
  /\ log' = out.st.log
  /\ result' = out.res
  /\ ret' = id
  /\ calls' = calls + 1
  /\ UNCHANGED envVars

\* the commands that can fail for a reason of the tool: any the run reaches
Faults(out) == 0..Len(out.st.log)

ApplyPatch ==
  /\ calls < MaxCalls
  /\ \E patches \in PatchSeqs :
       \E fault \in Faults(apply_patch(Start(Repo, 0), patches)) :
         \E out \in {apply_patch(Start(Repo, fault), patches)} :
           Return("apply_patch", [patches |-> patches], out, 0)

CherryPick ==
  /\ calls < MaxCalls
  /\ \E base_branch \in Lessons, target_branch \in Lessons :
       \E fault \in Faults(cherry_pick(Start(Repo, 0), base_branch, target_branch)) :
         \E out \in {cherry_pick(Start(Repo, fault), base_branch, target_branch)} :
           Return("cherry_pick", [base |-> base_branch, target |-> target_branch], out, 0)

CreateBranchFromPatch ==
  /\ calls < MaxCalls
  /\ \E patches \in PatchSeqs, target_branch \in {LessonNames[1], META} :
       \E fault \in Faults(create_branch_from(Start(Repo, 0), PatchTemplate(patches),
                                              target_branch, target_branch)) :
         \E out \in {create_branch_from(Start(Repo, fault), PatchTemplate(patches),
                                        target_branch, target_branch)} :
           Return("create_branch_from",
                  [template |-> "patch", patches |-> patches,
                   base |-> target_branch, target |-> target_branch],
                  out, out.head)

CreateBranchFromReplay ==
  /\ calls < MaxCalls
  /\ \E base_branch \in Lessons, target_branch \in Lessons \cup {META} :
       \E fault \in Faults(create_branch_from(Start(Repo, 0), ReplayTemplate,
                                              base_branch, target_branch)) :
         \E out \in {create_branch_from(Start(Repo, fault), ReplayTemplate,
                                        base_branch, target_branch)} :
           Return("create_branch_from",
                  [template |-> "replay", patches |-> <<>>,
                   base |-> base_branch, target |-> target_branch],
                  out, out.head)

Reset ==
  /\ calls < MaxCalls
  /\ \E ref \in {TagRef, BranchRef(MAIN), BranchRef(META)} :
       \E fault \in Faults(reset(Start(Repo, 0), ref)) :
         \E out \in {reset(Start(Repo, fault), ref)} :
           Return("reset", [ref |-> ref], out, 0)

Pull ==
  /\ calls < MaxCalls
  /\ \E new \in (Trees \ {TreeOf(Repo, origin[head])}) \cup {NoTree} :
       \E fault \in Faults(pull(Start(Repo, 0), new)) :
         \E out \in {pull(Start(Repo, fault), new)} :
           Return("pull", [new |-> new], out, 0)

Fetch ==
  /\ calls < MaxCalls
  /\ \E rem \in {"origin", UPSTREAM}, fault \in 0..1 :
       \E gained \in IF rem = "origin"
                      THEN (Trees \ {TreeOf(Repo, origin[MAIN])}) \cup {NoTree}
                      ELSE {<<>>} :
         \E out \in {fetch(Start(Repo, fault), rem, gained)} :
           Return("fetch", [remote |-> rem, gained |-> gained], out, 0)

\* what a git that is not git itself may print before the count
Noises == {<<>>, <<"w", " ">>}

IsBehindOrigin ==
  /\ calls < MaxCalls
  /\ \E noise \in Noises, fault \in 0..1 :
       \E out \in {is_behind_origin(Start(Repo, fault), noise)} :
         Return("is_behind_origin", [noise |-> noise], out, 0)

SetupUpstream ==
  /\ calls < MaxCalls
  /\ \E chain \in Chains :
       \E fault \in Faults(setup_upstream(Start(Repo, 0), chain)) :
         \E out \in {setup_upstream(Start(Repo, fault), chain)} :
           Return("setup_upstream", [remote |-> UPSTREAM], out, 0)

CheckoutMain ==
  /\ calls < MaxCalls
  /\ \E fault \in 0..1 :
       \E out \in {checkout_main(Start(Repo, fault))} :
         Return("checkout_main", <<>>, out, 0)

WriteInitialFiles ==
  /\ calls < MaxCalls
  /\ \E initial \in Trees :
       \E fault \in Faults(write_initial_files(Start(Repo, 0), initial)) :
         \E out \in {write_initial_files(Start(Repo, fault), initial)} :
           Return("write_initial_files", [initial |-> initial], out, 0)

Next ==
  \/ ApplyPatch
  \/ CherryPick
  \/ CreateBranchFromPatch
  \/ CreateBranchFromReplay
  \/ Reset
  \/ Pull
  \/ Fetch
  \/ IsBehindOrigin
  \/ SetupUpstream
  \/ CheckoutMain
  \/ WriteInitialFiles

Spec == Init /\ [][Next]_vars

\* ------------------------------------------- threads calling command()
\* The process before any command was constructed: the handle is bound to
\* an empty clone, the LazyLock is untouched, every thread is about to
\* construct its commands.
InitEnv ==
  /\ commits = EmptyRepo.commits
  /\ branch = EmptyRepo.branch
  /\ head = EmptyRepo.head
  /\ tag = EmptyRepo.tag
  /\ wt = EmptyRepo.wt
  /\ index = EmptyRepo.index
  /\ cp = EmptyRepo.cp
  /\ origin = EmptyRepo.origin
  /\ upstream = EmptyRepo.upstream
  /\ remote = EmptyRepo.remote
  /\ op = "new"
  /\ arg = <<>>
  /\ pre = <<>>
  /\ log = <<>>
  /\ result = "Ok"
  /\ ret = 0
  /\ calls = 0
  /\ \E unix \in BOOLEAN : ENV = Uninit(unix)
  /\ threads = [t \in Threads |-> Thread(MaxCmds)]
  /\ runs = 0

\* command(): the arguments are split and the Command is created
Command(t) ==
  /\ threads[t].pc = "idle"
  /\ threads[t].left > 0
  /\ threads' = [threads EXCEPT ![t].pc = "deref", ![t].left = @ - 1]
  /\ UNCHANGED <<ENV, runs, repoVars>>

\* a deref that would start the closure whenever the value is not there yet
DerefUnsynchronised(t) ==
  /\ threads[t].pc = "deref"
  /\ CASE ENV.state = "done" ->
            /\ threads' = [threads EXCEPT ![t].pc = "idle",
                                          ![t].given = Append(@, ENV.value)]
            /\ UNCHANGED ENV
       [] ENV.state \in {"uninit", "running"} ->
            /\ ENV' = [ENV EXCEPT !.state = "running"]
            /\ threads' = [threads EXCEPT ![t].pc = "init"]
       [] ENV.state = "poisoned" ->
            /\ threads' = [threads EXCEPT ![t].pc = "panicked"]
            /\ UNCHANGED ENV
  /\ UNCHANGED <<runs, repoVars>>

\* ENV.deref(): the value if it is there; the first thread to find none
\* starts the closure, a thread that finds the closure running blocks, and
\* a thread that finds the lock poisoned panics
Deref(t) ==
  /\ threads[t].pc = "deref"
  /\ CASE ENV.state = "done" ->
            /\ threads' = [threads EXCEPT ![t].pc = "idle",
                                          ![t].given = Append(@, ENV.value)]
            /\ UNCHANGED ENV
       [] ENV.state = "uninit" ->
            /\ ENV' = [ENV EXCEPT !.state = "running"]
            /\ threads' = [threads EXCEPT ![t].pc = "init"]
       [] ENV.state = "running" ->
            /\ threads' = [threads EXCEPT ![t].pc = "blocked"]
            /\ UNCHANGED ENV
       [] ENV.state = "poisoned" ->
            /\ threads' = [threads EXCEPT ![t].pc = "panicked"]
            /\ UNCHANGED ENV
  /\ UNCHANGED <<runs, repoVars>>

\* the closure of ENV: get_user_env() on a unix build, an empty map on
\* another; a panic of get_user_env poisons the lock
Initialize(t) ==
  /\ threads[t].pc = "init"
  /\ IF ENV.unix
     THEN \E output \in ShellOutputs :
            \E got \in {get_user_env(output)} :
              /\ runs' = runs + 1
              /\ IF got.panic
                 THEN /\ ENV' = [ENV EXCEPT !.state = "poisoned"]
                      /\ threads' = [threads EXCEPT ![t].pc = "panicked"]
                 ELSE /\ ENV' = [ENV EXCEPT !.state = "done", !.value = got.key_vals]
                      /\ threads' = [threads EXCEPT ![t].pc = "deref"]
     ELSE /\ ENV' = [ENV EXCEPT !.state = "done", !.value = EmptyMap]
          /\ threads' = [threads EXCEPT ![t].pc = "deref"]
          /\ UNCHANGED runs
  /\ UNCHANGED repoVars

\* a blocked thread resumes its deref once the closure has ended
Unblock(t) ==
  /\ threads[t].pc = "blocked"
  /\ ENV.state # "running"
  /\ threads' = [threads EXCEPT ![t].pc = "deref"]
  /\ UNCHANGED <<ENV, runs, repoVars>>

NextEnv ==
  \E t \in Threads :
    \/ Command(t)
    \/ Deref(t)
    \/ Initialize(t)
    \/ Unblock(t)

SpecEnv == InitEnv /\ [][NextEnv]_vars

\* ------------------------------------------------------------- claims
Called(name) == op = name
Ran(c) == \E i \in 1..Len(log) : log[i].c = c
NoFault == \A i \in 1..Len(log) : ~log[i].broken
Applied == {i \in 1..Len(log) : log[i].c = "apply"}
NewCommits == (Len(pre.commits) + 1)..Len(commits)
PreHead == HeadId(pre)

\* the last patch applies to the clean tree apply_patch was called on
FastPathCase ==
  /\ Called("apply_patch")
  /\ Clean(pre)
  /\ NoFault
  /\ Applies(Last(arg.patches), pre.wt)

\* C1: when the last patch applies to the current tree, apply_patch returns
\* Success, never resets to `initial`, applies the last patch and no other,
\* and commits the pre-call tree with only that patch applied.
C1_FastPath ==
  FastPathCase =>
    /\ result = "Success"
    /\ ~Ran("reset --hard")
    /\ Applied = {1}
    /\ log[1].a = Last(arg.patches)
    /\ NewCommits = {HeadId(Repo)}
    /\ commits[HeadId(Repo)] =
         Commit(ApplyTo(Last(arg.patches), pre.wt), PreHead, "Starter code")
    /\ Clean(Repo)

\* the fast path taken with a sequence whose first patch would not apply
C1_Witness ==
  /\ FastPathCase
  /\ Len(arg.patches) = 2
  /\ ~Applies(arg.patches[1], pre.wt)
  /\ result = "Success"

\* the last patch alone does not apply, the whole sequence applies from the
\* tree tagged `initial`
FallbackCase ==
  /\ Called("apply_patch")
  /\ Clean(pre)
  /\ NoFault
  /\ pre.tag # 0
  /\ ~Applies(Last(arg.patches), pre.wt)
  /\ AppliesAll(arg.patches, TreeOf(pre, pre.tag))

\* C2: when the last patch alone does not apply but the sequence applies in
\* order from the `initial` tree, apply_patch returns StarterReset and the
\* committed tree is the `initial` tree with all patches applied in order.
C2_Fallback ==
  FallbackCase =>
    /\ result = "StarterReset"
    /\ HeadTree(Repo) = ApplyAll(arg.patches, TreeOf(pre, pre.tag))

\* C2, for the sequences that change the `initial` tree
C2_FallbackChanging ==
  (FallbackCase /\ ApplyAll(arg.patches, TreeOf(pre, pre.tag)) # TreeOf(pre, pre.tag)) =>
    /\ result = "StarterReset"
    /\ commits[HeadId(Repo)] =
         Commit(ApplyAll(arg.patches, TreeOf(pre, pre.tag)), pre.tag, "Starter code")

\* the first patch-tool or cherry-pick command of the strategy, in the log
Primary == IF Called("create_branch_from") THEN 2 ELSE 1

\* how the replay of upstream/base..upstream/target starts on the pre-call
\* repository: "clean", "conflict", "empty" (a commit that changes nothing)
\* or "refused" (no such reference, empty range)
PickOf(r, base_branch, target_branch) ==
  LET out == GitCherryPick(r, base_branch, target_branch)
  IN IF out.ok THEN "clean"
     ELSE IF \E p \in Paths : out.r.wt[p] = Conflicted THEN "conflict"
     ELSE IF out.r.cp # 0 THEN "empty"
     ELSE "refused"

\* create_branch_from replays a range on the branch it created, and the
\* replay conflicts
ConflictCase ==
  /\ Called("create_branch_from")
  /\ arg.template = "replay"
  /\ Clean(pre)
  /\ pre.head = MAIN
  /\ NoFault
  /\ log[1].ok
  /\ PickOf(pre, arg.base, arg.target) = "conflict"

\* C3: when the cherry-pick of the range conflicts, cherry_pick aborts it
\* and returns SolutionReset, leaving the branch on a new 'Override with
\* reference solution' commit whose tree is upstream/target's and whose
\* parent is the commit `main` pointed to before the operation.
C3_ConflictOverride ==
  ConflictCase =>
    /\ result = "SolutionReset"
    /\ Ran("cherry-pick --abort")
    /\ commits[branch[arg.target]] =
         Commit(TreeOf(pre, pre.upstream[arg.target]), pre.branch[MAIN],
                "Override with reference solution")

\* C3, for the ranges whose target tree differs from main's
C3_ConflictOverrideChanging ==
  (ConflictCase /\ TreeOf(pre, pre.upstream[arg.target]) # TreeOf(pre, pre.branch[MAIN])) =>
    /\ result = "SolutionReset"
    /\ Ran("cherry-pick --abort")
    /\ commits[branch[arg.target]] =
         Commit(TreeOf(pre, pre.upstream[arg.target]), pre.branch[MAIN],
                "Override with reference solution")

\* cherry_pick is called on a clean tree and the range replays in full
CleanPickCase ==
  /\ Called("cherry_pick")
  /\ Clean(pre)
  /\ NoFault
  /\ PickOf(pre, arg.base, arg.target) = "clean"

PickedRange == RevRange(pre, pre.upstream[arg.base], pre.upstream[arg.target])

RECURSIVE Carried(_, _, _)
\* the tree t after the changes the commits ids made to their parents
Carried(r, t, ids) ==
  IF ids = <<>> THEN t
  ELSE LET c == r.commits[Head(ids)]
           before == TreeOf(r, c.parent)
       IN Carried(r, [p \in Paths |-> IF c.tree[p] # before[p] THEN c.tree[p] ELSE t[p]],
                  Tail(ids))

\* one replayed commit per commit of the range on top of the pre-call HEAD
ReplayedOnHead ==
  /\ Len(commits) = Len(pre.commits) + Len(PickedRange)
  /\ HeadId(Repo) = Len(commits)
  /\ \A i \in 1..Len(PickedRange) :
       LET c == commits[Len(pre.commits) + i]
       IN /\ c.parent = (IF i = 1 THEN PreHead ELSE Len(pre.commits) + i - 1)
          /\ c.msg = commits[PickedRange[i]].msg
          /\ c.tree = Carried(pre, pre.wt, SubSeq(PickedRange, 1, i))

\* C4 as stated: a range that cherry-picks without conflict gives Success,
\* HEAD's tree equal to upstream/target's tree, and one replayed commit per
\* commit of the range on top of the pre-call HEAD, with no reset and no
\* override commit.
C4_CleanPickTargetTree ==
  CleanPickCase =>
    /\ result = "Success"
    /\ HeadTree(Repo) = TreeOf(pre, pre.upstream[arg.target])
    /\ ReplayedOnHead
    /\ Len(log) = 1

\* C4 as amended: a range that cherry-picks without conflict gives Success,
\* HEAD's tree equal to the pre-call tree with the changes of the range's
\* commits carried over in order (upstream/target's tree when the pre-call
\* tree was upstream/base's), and one replayed commit per commit of the
\* range on top of the pre-call HEAD, with no reset and no override commit.
C4_CleanPick ==
  CleanPickCase =>
    /\ result = "Success"
    /\ HeadTree(Repo) = Carried(pre, pre.wt, PickedRange)
    /\ (pre.wt = TreeOf(pre, pre.upstream[arg.base])
          => HeadTree(Repo) = TreeOf(pre, pre.upstream[arg.target]))
    /\ ReplayedOnHead
    /\ Len(log) = 1
    /\ Clean(Repo)

\* a range of two commits replayed on a tree that differs from upstream/base
C4_Witness ==
  /\ CleanPickCase
  /\ Len(PickedRange) = 2
  /\ pre.wt # TreeOf(pre, pre.upstream[arg.base])
  /\ result = "Success"

\* C5: when every step of create_branch_from succeeds it returns with main
\* checked out, whichever MergeType the strategy gave, and the steps after
\* the strategy are the same three: push the branch, read HEAD, check out
\* main.
C5_ReturnsOnMain ==
  (Called("create_branch_from") /\ result # "Err") =>
    /\ result \in MergeType
    /\ head = MAIN
    /\ Len(log) >= 5
    /\ LET n == Len(log)
       IN /\ log[n - 2].c = "push -u" /\ log[n - 2].a = arg.target /\ log[n - 2].ok
          /\ log[n - 1].c = "rev-parse" /\ log[n - 1].ok
          /\ log[n].c = "checkout" /\ log[n].a = MAIN /\ log[n].ok
          /\ \A i \in 1..(n - 3) : log[i].c \notin {"push -u", "rev-parse", "checkout"}

\* a derivation that fell back to the reference solution and came back to main
C5_Witness ==
  /\ Called("create_branch_from")
  /\ result = "SolutionReset"
  /\ pre.head = MAIN
  /\ head = MAIN
  /\ branch[arg.target] # branch[MAIN]

PublicOps == {"apply_patch", "cherry_pick", "create_branch_from", "reset",
              "write_initial_files"}

ToolFailureCase ==
  /\ op \in {"apply_patch", "cherry_pick"}
  /\ Clean(pre)
  /\ Len(log) >= 1
  /\ \/ log[1].broken
     \/ Called("cherry_pick") /\ PickOf(pre, arg.base, arg.target) = "refused"

\* C7: a failure of the primary step that is not a patch rejection or a
\* cherry-pick conflict is returned as an error and runs no command of the
\* fallback.
C7_ToolFailureIsFatal ==
  ToolFailureCase =>
    /\ result = "Err"
    /\ Len(log) = 1

FallbackSteps ==
  {i \in (Primary + 1)..Len(log) :
     log[i].c \in {"reset --hard", "apply", "cherry-pick --abort", "reset --soft"}}

\* C8: in the fallback of apply_patch and of cherry_pick, the first command
\* that fails (the hard reset, a patch, the abort, the soft reset) ends the
\* operation with an error: no later command runs, nothing is staged and
\* neither a 'Starter code' nor an 'Override with reference solution'
\* commit is made.
C8_FallbackFailureStops ==
  (op \in {"apply_patch", "cherry_pick", "create_branch_from"}) =>
    \A i \in FallbackSteps :
      ~log[i].ok =>
        /\ i = Len(log)
        /\ result = "Err"
        /\ ~Ran("add")
        /\ ~Ran("commit")
        /\ \A c \in NewCommits :
             commits[c].msg \notin {"Starter code", "Override with reference solution"}
        /\ log[Primary].c = "apply" =>
             index = IF log[Primary + 1].ok THEN TreeOf(pre, pre.tag) ELSE pre.index

\* the replay from `initial` applied its first patch and failed on the second
C8_Witness ==
  /\ Called("apply_patch")
  /\ Clean(pre)
  /\ NoFault
  /\ Len(log) = 4
  /\ log[3].c = "apply" /\ log[3].ok
  /\ log[4].c = "apply" /\ ~log[4].ok
  /\ result = "Err"

\* the steps of create_branch_from whose error is returned: all but the
\* primary step of the strategy
Fatal == {i \in 1..Len(log) : ~log[i].ok /\ i # Primary}

\* C9: a step of create_branch_from that fails ends the call with an error
\* and no (commit id, MergeType) pair, no later step runs, and the target
\* branch, once created (on an unborn HEAD `checkout -b` creates none), is
\* still there with the commit the strategy made.
C9_FailureKeepsBranch ==
  Called("create_branch_from") =>
    /\ (result = "Err") = (Fatal # {})
    /\ Fatal \subseteq {Len(log)}
    /\ result = "Err" => ret = 0
    /\ (result = "Err" /\ log[1].ok /\ PreHead # 0) =>
         /\ pre.branch[arg.target] = 0
         /\ branch[arg.target] # 0
         /\ (\E i \in 1..Len(log) : log[i].c = "commit" /\ log[i].ok) =>
              /\ branch[arg.target] = Len(commits)
              /\ branch[arg.target] \in NewCommits

\* the strategy committed on the new branch and the push failed
C9_Witness ==
  /\ Called("create_branch_from")
  /\ result = "Err"
  /\ log[Len(log)].c = "push -u"
  /\ branch[arg.target] \in NewCommits
  /\ commits[branch[arg.target]].msg = "Starter code"

\* C10: once the `initial` tag is set, no operation moves it.
C10_TagNeverMoves == [][tag # 0 => tag' = tag]_vars

\* a repeated write_initial_files committed new files and reached its tag
\* command
C10_Witness ==
  /\ Called("write_initial_files")
  /\ pre.tag # 0
  /\ HeadId(Repo) # pre.tag
  /\ Ran("tag")
  /\ tag = pre.tag

\* the commit commands of a strategy's run
Commits == {i \in 1..Len(log) : log[i].c = "commit"}

\* C11: the commit step that ends a reconciliation is no-op-safe: in a run
\* with no tool failure on a clean tree, whatever tree the reconciliation
\* left (the tree of the commit HEAD is on included), the commit step
\* succeeds and the strategy returns its MergeType.
C11_CommitNoOpSafe ==
  (op \in {"apply_patch", "cherry_pick"} /\ Clean(pre) /\ NoFault /\ Commits # {}) =>
    /\ \A i \in Commits : log[i].ok
    /\ result \in MergeType

\* Repositories with the working tree, index, HEAD tree and `initial` tree
\* of r and another past: one whose branch went through a change and its
\* revert, one that was never pushed to origin.
Reverted(r) ==
  LET n == Len(r.commits)
      other == CHOOSE t \in Trees : t # HeadTree(r)
  IN [r EXCEPT !.commits = @ \o <<Commit(other, HeadId(r), "Student work"),
                                   Commit(HeadTree(r), n + 1, "Student work")>>,
               !.branch[r.head] = n + 2]
Unpushed(r) == [r EXCEPT !.origin = [b \in Branches |-> 0]]
Twins(r) ==
  {Unpushed(r)} \cup (IF HeadId(r) # 0 /\ r.wt \in Trees THEN {Reverted(r)} ELSE {})

\* what a run shows of its path: the commands and whether each succeeded
Path(l) == [i \in 1..Len(l) |-> [c |-> l[i].c, a |-> l[i].a, ok |-> l[i].ok]]

\* C12: apply_patch is deterministic: with no tool failure, the same patch
\* sequence run on a repository with the same working tree, HEAD tree and
\* `initial` tree takes the same path (the same commands with the same
\* outcomes), returns the same result and ends with the same working tree,
\* index and HEAD tree.
C12_Deterministic ==
  (Called("apply_patch") /\ NoFault) =>
    \A twin \in Twins(pre) :
      \E other \in {apply_patch(Start(twin, 0), arg.patches)} :
        /\ HeadTree(twin) = HeadTree(pre)
        /\ TreeOf(twin, twin.tag) = TreeOf(pre, pre.tag)
        /\ Path(other.st.log) = Path(log)
        /\ other.res = result
        /\ other.st.r.wt = wt
        /\ other.st.r.index = index
        /\ HeadTree(other.st.r) = HeadTree(Repo)

\* the replay from `initial` ran on a branch that is on `initial`, whose
\* twin went through a change and its revert
C12_Witness ==
  /\ Called("apply_patch")
  /\ NoFault
  /\ result = "StarterReset"
  /\ PreHead = pre.tag
  /\ Reverted(pre) \in Twins(pre)
  /\ HeadId(Reverted(pre)) # pre.tag

\* the commands constructed so far, as (thread, position) pairs
Constructed == {<<t, i>> \in Threads \X (1..MaxCmds) : i <= Len(threads[t].given)}

\* C13: the environment snapshot is computed at most once per process:
\* however the calls to command() of several threads interleave,
\* get_user_env has run at most once, exactly once (on a unix build, where
\* it exists) as soon as the snapshot is there, and every command
\* constructed was given the one mapping the LazyLock holds.
C13_EnvOnce ==
  /\ runs <= 1
  /\ ENV.state \in {"done", "poisoned"} => runs = (IF ENV.unix THEN 1 ELSE 0)
  /\ ENV.state \in {"uninit", "running"} => runs = 0
  /\ Constructed # {} => ENV.state = "done"
  /\ \A c \in Constructed : threads[c[1]].given[c[2]] = ENV.value

\* two threads were given the snapshot the shell printed while a third,
\* which found the closure running, is still blocked
C13_Witness ==
  /\ ENV.state = "done"
  /\ runs = 1
  /\ ENV.value # EmptyMap
  /\ \E t \in Threads : threads[t].pc = "blocked"
  /\ \E t1, t2 \in Threads :
       t1 # t2 /\ Len(threads[t1].given) = MaxCmds /\ threads[t2].given # <<>>

\* the commits of origin/main that local main does not reach
Missing(r) ==
  {c \in 1..Len(r.commits) :
     IsAncestor(r, c, r.origin[MAIN]) /\ ~IsAncestor(r, c, r.branch[MAIN])}
\* rev-list ran and printed the count and nothing else
Counted == Len(log) = 1 /\ log[1].ok /\ arg.noise = <<>>

\* C14: is_behind_origin returns true exactly when origin/main has a commit
\* that local main does not reach; it returns false when main is equal to
\* or ahead of origin/main, and an error when rev-list fails or when what it
\* printed is not a number; it changes nothing in the repository.
C14_BehindOrigin ==
  Called("is_behind_origin") =>
    /\ Repo = pre
    /\ result \in {"true", "false", "Err"}
    /\ result = "true" => Missing(pre) # {}
    /\ result = "false" => Missing(pre) = {}
    /\ Counted => result = (IF Missing(pre) # {} THEN "true" ELSE "false")
    /\ (Counted /\ IsAncestor(pre, pre.origin[MAIN], pre.branch[MAIN])) => result = "false"
    /\ (log[1].ok /\ arg.noise # <<>>) => result = "Err"
    /\ ~log[1].ok => result = "Err"

\* main and origin/main have diverged: main holds an unpushed commit and
\* origin/main one that was fetched, and the answer is true
C14_Witness ==
  /\ Called("is_behind_origin")
  /\ Counted
  /\ result = "true"
  /\ ~IsAncestor(pre, pre.branch[MAIN], pre.origin[MAIN])
  /\ ~IsAncestor(pre, pre.origin[MAIN], pre.branch[MAIN])

\* the commits a branch at `at` has beyond the commit tagged `initial`
Beyond(r, at) ==
  {c \in 1..Len(r.commits) : IsAncestor(r, c, at) /\ ~IsAncestor(r, c, r.tag)}

\* C15: apply_patch that returns a MergeType has added exactly one commit,
\* 'Starter code', with HEAD on it.  After StarterReset its parent is the
\* commit tagged `initial` and no commit the branch had beyond `initial` is
\* an ancestor of HEAD; after Success its parent is the pre-call HEAD and
\* every commit of the branch still is an ancestor of HEAD.
C15_StarterParent ==
  (Called("apply_patch") /\ result # "Err") =>
    /\ result \in {"Success", "StarterReset"}
    /\ Len(commits) = Len(pre.commits) + 1
    /\ SubSeq(commits, 1, Len(pre.commits)) = pre.commits
    /\ HeadId(Repo) = Len(commits)
    /\ commits[HeadId(Repo)].msg = "Starter code"
    /\ tag = pre.tag
    /\ result = "StarterReset" =>
         /\ commits[HeadId(Repo)].parent = pre.tag
         /\ \A c \in Beyond(pre, PreHead) : ~IsAncestor(Repo, c, HeadId(Repo))
    /\ result = "Success" =>
         /\ commits[HeadId(Repo)].parent = PreHead
         /\ \A c \in 1..Len(pre.commits) :
              IsAncestor(pre, c, PreHead) => IsAncestor(Repo, c, HeadId(Repo))

\* the replay from `initial` dropped the commit the branch had beyond it
C15_Witness ==
  /\ Called("apply_patch")
  /\ result = "StarterReset"
  /\ Beyond(pre, PreHead) # {}
  /\ commits[HeadId(Repo)].parent = pre.tag
  /\ ~IsAncestor(Repo, PreHead, HeadId(Repo))

\* the positions of a command in the log
At(c) == {i \in 1..Len(log) : log[i].c = c}
Housekeeping == {"checkout -b", "push -u", "rev-parse", "checkout"}
\* the commands of the strategy: all but the orchestrator's own
StrategySteps == {i \in 1..Len(log) : log[i].c \notin Housekeeping}

\* C16: create_branch_from runs its steps in the order: check out the new
\* target branch, run the strategy, push the target branch, read HEAD, check
\* out main.  The push comes after every command of the strategy, only when
\* the strategy returned its MergeType (no command of it but the caught
\* primary one failed, and it left a commit), and the commit identifier
\* returned is the head of the target branch as pushed, read while HEAD was
\* on it, never main's commit.
C16_StepOrder ==
  Called("create_branch_from") =>
    /\ log[1].c = "checkout -b" /\ log[1].a = arg.target
    /\ At("checkout -b") = {1}
    /\ \A i \in StrategySteps : log[1].ok /\ i > 1
    /\ \A i \in At("push -u") :
         /\ log[i].a = arg.target
         /\ StrategySteps = 2..(i - 1)
         /\ \A j \in StrategySteps : log[j].ok \/ j = Primary
         /\ log[i - 1].ok
         /\ branch[arg.target] \in NewCommits
         /\ log[i].ok => origin[arg.target] = branch[arg.target]
    /\ (\E j \in StrategySteps : ~log[j].ok /\ j # Primary) =>
         /\ At("push -u") = {}
         /\ origin = pre.origin
    /\ \A i \in At("rev-parse") : log[i - 1].c = "push -u" /\ log[i - 1].ok
    /\ \A i \in At("checkout") : log[i - 1].c = "rev-parse" /\ log[i - 1].ok /\ log[i].a = MAIN
    /\ result # "Err" =>
         /\ ret = branch[arg.target]
         /\ ret = origin[arg.target]
         /\ ret \in NewCommits
         /\ ret # branch[MAIN]
         /\ HeadId(Repo) = branch[MAIN]

\* a clean replay of two lessons derived a branch: the commit returned is
\* the branch's pushed head, two commits beyond main's
C16_Witness ==
  /\ Called("create_branch_from")
  /\ result = "Success"
  /\ arg.template = "replay"
  /\ head = MAIN
  /\ ret = origin[arg.target]
  /\ ret = Len(pre.commits) + 2
  /\ branch[MAIN] = PreHead

\* C17: after write_initial_files succeeds, main is on the 'Initial commit'
\* commit, which holds the package's files and no metadata and carries the
\* tag `initial`; meta is one commit, 'Add meta', ahead of main and differs
\* from it by the metadata only; both branches are pushed to origin, main is
\* checked out on a clean tree, and the tag command ran before the meta
\* branch was created.
C17_InitialLayout ==
  (Called("write_initial_files") /\ result = "Ok") =>
    /\ branch[MAIN] # 0
    /\ commits[branch[MAIN]].msg = "Initial commit"
    /\ commits[branch[MAIN]].tree = [p \in Paths |-> IF p \in Files THEN arg.initial[p]
                                                      ELSE pre.wt[p]]
    /\ tag = branch[MAIN]
    /\ TreeOf(Repo, tag)[MetaPath] = Absent
    /\ commits[branch[META]] =
         Commit([TreeOf(Repo, tag) EXCEPT ![MetaPath] = "present"], branch[MAIN], "Add meta")
    /\ origin[MAIN] = branch[MAIN]
    /\ origin[META] = branch[META]
    /\ head = MAIN
    /\ Clean(Repo)
    /\ \A i \in At("tag"), j \in At("checkout -b") : i < j /\ log[i].ok /\ log[j].a = META
    /\ Len(log) = 11

\* a package whose files are not the pristine ones, written to an empty clone
C17_Witness ==
  /\ Called("write_initial_files")
  /\ result = "Ok"
  /\ pre = EmptyRepo
  /\ arg.initial # Pristine
  /\ branch[META] = 2
  /\ tag = 1

\* C18: reset(branch) force-pushes only after the hard reset has succeeded.
\* If the hard reset fails no push is attempted, the remote branches and
\* the repository are as they were and an error is returned; if the hard
\* reset succeeds and the push fails, an error is returned while the local
\* branch is already on `branch` and the remote is as it was; if both
\* succeed the remote branch is on `branch` too.
C18_ResetThenPush ==
  Called("reset") =>
    /\ log[1].c = "reset --hard" /\ log[1].a = arg.ref
    /\ \A i \in At("push --force") : i = 2 /\ log[1].ok
    /\ ~log[1].ok =>
         /\ Len(log) = 1
         /\ result = "Err"
         /\ Repo = pre
    /\ log[1].ok =>
         /\ Len(log) = 2
         /\ log[2].c = "push --force"
         /\ HeadId(Repo) = Resolve(pre, arg.ref)
         /\ wt = TreeOf(pre, Resolve(pre, arg.ref))
         /\ index = wt
    /\ (log[1].ok /\ ~log[2].ok) =>
         /\ result = "Err"
         /\ origin = pre.origin
    /\ (log[1].ok /\ log[2].ok) =>
         /\ result = "Ok"
         /\ origin = [pre.origin EXCEPT ![head] = Resolve(pre, arg.ref)]

\* main, which held pulled work, was reset to `initial` and the push failed:
\* main is on `initial`, origin/main still on the pulled commit
C18_Witness ==
  /\ Called("reset")
  /\ arg.ref = TagRef
  /\ result = "Err"
  /\ Len(log) = 2
  /\ HeadId(Repo) = pre.tag
  /\ PreHead # pre.tag
  /\ origin[MAIN] = PreHead
====
